---- MODULE Spec2Model ----
(***************************************************************************)
(* Model of cargo-easy-dep (src/src/main.rs): the analysis of a workspace  *)
(* inventory for common dependencies, the rewrite of the root manifest and *)
(* the rewrite of every member manifest.                                   *)
(*                                                                         *)
(* A TOML item is a record with a field "kind":                            *)
(*   string  [kind, text]          a TOML string value                     *)
(*   bool    [kind, val]           a TOML boolean value                    *)
(*   int     [kind, num]           a TOML integer (an unrecognised shape)  *)
(*   inline  [kind, tbl]           an inline table { .. }                  *)
(*   table   [kind, tbl]           a [table]                               *)
(*   aot     [kind, elems]         an [[array of tables]]                  *)
(* where tbl is a function from keys to items and elems a sequence of such *)
(* functions.  The order of the keys of a table and the formatting of the  *)
(* text are not modelled: toml_edit keeps both for what is not edited.     *)
(***************************************************************************)
EXTENDS Integers, Sequences, FiniteSets, TLC

VARIABLES
  metadata,         \* cargo metadata: workspace_members and packages
  min_occurrences,  \* cli.min_occurrences
  common_deps,      \* the HashMap<String, Dependency> of run()
  disk,             \* the manifest files: [root, members]
  pc,               \* position of run()
  k,                \* index of the member the loop of run() is at
  run,              \* number of the current run of the program
  ret,              \* what each rewrite of the current run returned
  log,              \* file reads and writes of the current run, in order
  disk0,            \* the files as the current run found them
  first,            \* the files as the first run found them
  out               \* result of the last call of a function called alone

vars == <<metadata, min_occurrences, common_deps, disk, pc, k, run, ret, log,
          disk0, first, out>>

(***************************************************************************)
(* Bounds of the model.                                                    *)
(***************************************************************************)
NumMembers == 2
MaxDeps == 2
MaxThreshold == 2
MaxRuns == 2

Names == {"foo", "bar"}

MapPut(f, key, v) == [x \in DOMAIN f \cup {key} |-> IF x = key THEN v ELSE f[x]]
MapRemove(f, key) == [x \in DOMAIN f \ {key} |-> f[x]]
EmptyMap == <<>>

(***************************************************************************)
(* cargo_metadata::Dependency: the fields the program reads.  req is a     *)
(* semver::VersionReq, here a comparator with its major version.           *)
(***************************************************************************)
Reqs == {[op |-> "caret", major |-> 1], [op |-> "caret", major |-> 2]}

Dependency == [name : Names, req : Reqs, path : BOOLEAN]

\* VersionReq's Display, used by info.req.to_string()
ReqToString(req) ==
  CASE req.major = 1 -> "^1"
    [] req.major = 2 -> "^2"
    [] OTHER -> "*"

PackageIds == 1..NumMembers

\* metadata.packages.iter().find(|p| p.id == *package_id)
FindPackage(md, id) ==
  IF id \in DOMAIN md.packages THEN [found |-> TRUE, package |-> md.packages[id]]
  ELSE [found |-> FALSE]

(***************************************************************************)
(* find_common_dependencies: the loop over the dependencies of one package *)
(* and the loop over the workspace members.  acc is (dep_count, dep_info). *)
(***************************************************************************)
RECURSIVE ScanDependencies(_, _, _, _)
ScanDependencies(deps, i, acc, min) ==
  IF i > Len(deps) THEN acc
  ELSE LET dep == deps[i] IN
    IF dep.path THEN ScanDependencies(deps, i + 1, acc, min)
    ELSE
      LET old == IF dep.name \in DOMAIN acc.dep_count
                 THEN acc.dep_count[dep.name] ELSE 0
          count == old + 1
          info == IF count >= min /\ dep.name \notin DOMAIN acc.dep_info
                  THEN MapPut(acc.dep_info, dep.name, dep)
                  ELSE acc.dep_info
      IN ScanDependencies(deps, i + 1,
           [dep_count |-> MapPut(acc.dep_count, dep.name, count),
            dep_info |-> info], min)

RECURSIVE ScanMembers(_, _, _, _)
ScanMembers(md, m, acc, min) ==
  IF m > Len(md.workspace_members) THEN [ok |-> TRUE, dep_info |-> acc.dep_info]
  ELSE LET p == FindPackage(md, md.workspace_members[m]) IN
    IF ~p.found THEN [ok |-> FALSE, dep_info |-> EmptyMap]
    ELSE ScanMembers(md, m + 1,
           ScanDependencies(p.package.dependencies, 1, acc, min), min)

find_common_dependencies(md, min) ==
  ScanMembers(md, 1,
    [dep_count |-> EmptyMap, dep_info |-> EmptyMap], min)

(***************************************************************************)
(* TOML items.                                                             *)
(***************************************************************************)
Str(t) == [kind |-> "string", text |-> t]
Bool(b) == [kind |-> "bool", val |-> b]
Integer(n) == [kind |-> "int", num |-> n]
Inline(t) == [kind |-> "inline", tbl |-> t]
Table(t) == [kind |-> "table", tbl |-> t]
ArrayOfTables(e) == [kind |-> "aot", elems |-> e]

\* a file whose text is no TOML document, and a parsed document
Invalid == [kind |-> "invalid"]
Doc(t) == [kind |-> "doc", tbl |-> t]

\* Item::as_table / as_table_mut: Some only for Item::Table
IsTable(item) == item.kind = "table"

\* Item::as_bool / Value::as_bool
IsBool(item) == item.kind = "bool"

(***************************************************************************)
(* update_root_cargo_toml, lines 257-286, on the parsed document.          *)
(***************************************************************************)
\* a variant that inserts whether or not the key exists (deps_table.insert)
RootInsertOverwriting(acc, name, info) ==
  [tbl |-> MapPut(acc.tbl, name, Str(ReqToString(info.req))),
   modified |-> TRUE]

\* deps_table.entry(name).or_insert_with(|| { modified = true; value(req) })
RootInsert(acc, name, info) ==
  IF name \in DOMAIN acc.tbl THEN acc
  ELSE [tbl |-> MapPut(acc.tbl, name, Str(ReqToString(info.req))),
        modified |-> TRUE]

\* for (name, info) in common_deps { .. }: each name is visited once and an
\* insertion touches its own key only, so the HashMap's order decides nothing
\* but the order of the new keys, which tables here do not keep.
RECURSIVE RootInsertAll(_, _, _)
RootInsertAll(acc, names, common) ==
  IF names = {} THEN acc
  ELSE LET name == CHOOSE n \in names : TRUE IN
    RootInsertAll(RootInsert(acc, name, common[name]), names \ {name}, common)

RootApply(doc, common) ==
  LET top == IF "workspace" \in DOMAIN doc.tbl THEN doc.tbl
             ELSE MapPut(doc.tbl, "workspace", Table(EmptyMap))
      ws == top["workspace"]
  IN
  IF ~IsTable(ws) THEN [err |-> TRUE, doc |-> doc, modified |-> FALSE]
  ELSE
    LET wtbl == IF "dependencies" \in DOMAIN ws.tbl THEN ws.tbl
                ELSE MapPut(ws.tbl, "dependencies", Table(EmptyMap))
        deps == wtbl["dependencies"]
    IN
    IF common # EmptyMap /\ ~IsTable(deps)
    THEN [err |-> TRUE, doc |-> doc, modified |-> FALSE]
    ELSE
      LET res == IF common = EmptyMap
                 THEN [tbl |-> EmptyMap, modified |-> FALSE]
                 ELSE RootInsertAll([tbl |-> deps.tbl, modified |-> FALSE],
                                    DOMAIN common, common)
          newdeps == IF common = EmptyMap THEN deps ELSE Table(res.tbl)
      IN [err |-> FALSE,
          doc |-> Doc(MapPut(top, "workspace",
                        Table(MapPut(wtbl, "dependencies", newdeps)))),
          modified |-> res.modified]

(***************************************************************************)
(* update_root_cargo_toml: read, parse, apply, write.  readFails and       *)
(* writeFails are the outcomes of fs::read_to_string and fs::write; a      *)
(* failed write is taken to leave the file as it was.                      *)
(***************************************************************************)
update_root_cargo_toml(content, common, readFails, writeFails) ==
  IF readFails
  THEN [err |-> TRUE, read |-> FALSE, written |-> FALSE, modified |-> FALSE,
        content |-> content]
  ELSE IF content.kind = "invalid"
  THEN [err |-> TRUE, read |-> TRUE, written |-> FALSE, modified |-> FALSE,
        content |-> content]
  ELSE LET r == RootApply(content, common) IN
    IF r.err
    THEN [err |-> TRUE, read |-> TRUE, written |-> FALSE, modified |-> FALSE,
          content |-> content]
    ELSE IF writeFails
    THEN [err |-> TRUE, read |-> TRUE, written |-> FALSE, modified |-> FALSE,
          content |-> content]
    ELSE [err |-> FALSE, read |-> TRUE, written |-> TRUE,
          modified |-> r.modified, content |-> r.doc]

(***************************************************************************)
(* update_dependencies_table, lines 367-434.                               *)
(***************************************************************************)
\* a variant that sets the marker and reports a change whatever the entry held
UpdateAttributesAlways(t) ==
  LET t1 == IF "version" \in DOMAIN t THEN MapRemove(t, "version") ELSE t IN
  [tbl |-> MapPut(t1, "workspace", Bool(TRUE)), modified |-> TRUE]

\* lines 387-401 and 406-420: the InlineTable arm and the Table arm do the
\* same to the entry's own table t
UpdateAttributes(t) ==
  LET t1 == IF "version" \in DOMAIN t THEN MapRemove(t, "version") ELSE t IN
  IF "workspace" \notin DOMAIN t1
  THEN [tbl |-> MapPut(t1, "workspace", Bool(TRUE)), modified |-> TRUE]
  ELSE IF IsBool(t1["workspace"]) /\ ~t1["workspace"].val
  THEN [tbl |-> MapPut(t1, "workspace", Bool(TRUE)), modified |-> TRUE]
  ELSE [tbl |-> t1, modified |-> FALSE]

\* the loop body for one name on the table deps: each name of common_deps is
\* visited once and touches deps[name] only
RECURSIVE UpdateEntry(_, _)
RECURSIVE update_dependencies_table(_, _)
RECURSIVE UpdateElements(_, _, _)

\* lines 424-426: for table in tables.iter_mut() { modified |= .. }
UpdateElements(elems, i, common) ==
  IF i > Len(elems) THEN [elems |-> <<>>, modified |-> FALSE]
  ELSE LET head == update_dependencies_table(elems[i], common)
           rest == UpdateElements(elems, i + 1, common)
       IN [elems |-> <<head.tbl>> \o rest.elems,
           modified |-> head.modified \/ rest.modified]

\* lines 375-429: match &mut deps_table[name]
UpdateEntry(item, common) ==
  CASE item.kind = "string" ->
         [item |-> Inline([key \in {"workspace"} |-> Bool(TRUE)]),
          modified |-> TRUE]
    [] item.kind = "inline" ->
         LET r == UpdateAttributes(item.tbl)
         IN [item |-> Inline(r.tbl), modified |-> r.modified]
    [] item.kind = "table" ->
         LET r == UpdateAttributes(item.tbl)
         IN [item |-> Table(r.tbl), modified |-> r.modified]
    [] item.kind = "aot" ->
         LET r == UpdateElements(item.elems, 1, common)
         IN [item |-> ArrayOfTables(r.elems), modified |-> r.modified]
    [] OTHER -> [item |-> item, modified |-> FALSE]

update_dependencies_table(deps, common) ==
  LET hit == DOMAIN common \cap DOMAIN deps IN
  [tbl |-> [key \in DOMAIN deps |->
              IF key \in hit THEN UpdateEntry(deps[key], common).item
              ELSE deps[key]],
   modified |-> \E key \in hit : UpdateEntry(deps[key], common).modified]

(***************************************************************************)
(* update_member_cargo_toml, lines 317-353, on the parsed document: the    *)
(* three sections in the order of the code.                                *)
(***************************************************************************)
Sections == <<"dependencies", "dev-dependencies", "build-dependencies">>

RECURSIVE MemberApply(_, _, _, _)
MemberApply(doc, common, s, modified) ==
  IF s > Len(Sections) THEN [err |-> FALSE, doc |-> doc, modified |-> modified]
  ELSE LET key == Sections[s] IN
    IF key \notin DOMAIN doc.tbl THEN MemberApply(doc, common, s + 1, modified)
    ELSE IF ~IsTable(doc.tbl[key])
    THEN [err |-> TRUE, doc |-> doc, modified |-> modified]
    ELSE LET r == update_dependencies_table(doc.tbl[key].tbl, common) IN
      MemberApply(Doc(MapPut(doc.tbl, key, Table(r.tbl))), common, s + 1,
                  modified \/ r.modified)

(***************************************************************************)
(* update_member_cargo_toml: read, parse, apply, write if modified.  doc   *)
(* is the document in memory when the function returns.                    *)
(***************************************************************************)
update_member_cargo_toml(content, common, readFails, writeFails) ==
  IF readFails
  THEN [err |-> TRUE, read |-> FALSE, written |-> FALSE, modified |-> FALSE,
        content |-> content, doc |-> content]
  ELSE IF content.kind = "invalid"
  THEN [err |-> TRUE, read |-> TRUE, written |-> FALSE, modified |-> FALSE,
        content |-> content, doc |-> content]
  ELSE LET r == MemberApply(content, common, 1, FALSE) IN
    IF r.err
    THEN [err |-> TRUE, read |-> TRUE, written |-> FALSE, modified |-> FALSE,
          content |-> content, doc |-> r.doc]
    ELSE IF ~r.modified
    THEN [err |-> FALSE, read |-> TRUE, written |-> FALSE, modified |-> FALSE,
          content |-> content, doc |-> r.doc]
    ELSE IF writeFails
    THEN [err |-> TRUE, read |-> TRUE, written |-> FALSE, modified |-> FALSE,
          content |-> content, doc |-> r.doc]
    ELSE [err |-> FALSE, read |-> TRUE, written |-> TRUE, modified |-> TRUE,
          content |-> r.doc, doc |-> r.doc]

(***************************************************************************)
(* Inputs.  The inventory comes from `cargo metadata` and the manifests    *)
(* are read from disk afterwards, so the program can meet any pair of      *)
(* them: what it reads from a file is not checked against the inventory.   *)
(***************************************************************************)
SeqsUpTo(S, n) == UNION {[1..m -> S] : m \in 0..n}

Package(deps) == [dependencies |-> deps]

\* every workspace member has its package (cargo metadata --no-deps)
Metadata(pkgs) ==
  [workspace_members |-> [i \in PackageIds |-> i], packages |-> pkgs]

\* all inventories of NumMembers members with up to MaxDeps declarations each
Inventories ==
  {Metadata(pkgs) : pkgs \in [PackageIds -> {Package(d) : d \in SeqsUpTo(Dependency, MaxDeps)}]}

Dep(name, major, path) ==
  [name |-> name, req |-> [op |-> "caret", major |-> major], path |-> path]

\* the dependency lists of the members of a run
RunDependencies ==
  { <<Dep("foo", 1, FALSE), Dep("bar", 2, FALSE)>>,
    <<Dep("foo", 2, FALSE)>>,
    <<Dep("bar", 1, TRUE)>> }

\* a member without its package: the lookups of lines 211-217, 178-182 fail
Orphaned ==
  [workspace_members |-> [i \in PackageIds |-> i],
   packages |-> [i \in PackageIds \ {NumMembers} |->
                   Package(<<Dep("foo", 1, FALSE)>>)]]

RunInventories ==
  {Metadata(pkgs) : pkgs \in [PackageIds -> {Package(d) : d \in RunDependencies}]}
  \cup {Orphaned}

\* the qualifying sets find_common_dependencies can return
CommonSets ==
  UNION {[S -> {d \in Dependency : ~d.path}] : S \in SUBSET Names}
  \ {f \in UNION {[S -> Dependency] : S \in SUBSET Names} :
       \E n \in DOMAIN f : f[n].name # n}

Array == [kind |-> "array"]

\* the attribute tables of a dependency entry
AttrValues(key) ==
  CASE key = "version" -> {Str("1.0")}
    [] key = "features" -> {Array}
    [] key = "path" -> {Str("../p")}
    [] key = "workspace" -> {Bool(TRUE), Bool(FALSE)}

AttrKeys == {"version", "features", "path", "workspace"}

AttrMaps ==
  UNION {{f \in [S -> UNION {AttrValues(a) : a \in S}] :
            \A a \in S : f[a] \in AttrValues(a)} : S \in SUBSET AttrKeys}

Version == [key \in {"version"} |-> Str("1.0")]
VersionFeatures ==
  [key \in {"version", "features"} |-> IF key = "version" THEN Str("1.0") ELSE Array]
Delegated == [key \in {"workspace"} |-> Bool(TRUE)]
DelegatedVersion ==
  [key \in {"version", "workspace"} |->
     IF key = "version" THEN Str("1.0") ELSE Bool(TRUE)]
NotDelegated ==
  [key \in {"version", "workspace"} |->
     IF key = "version" THEN Str("1.0") ELSE Bool(FALSE)]

\* the shapes of one entry of a dependency table
Entries ==
  {Str("1.0"), Integer(1), Inline([key \in {"workspace"} |-> Str("yes")])}
  \cup {Inline(t) : t \in AttrMaps}
  \cup {Table(t) : t \in AttrMaps}
  \cup {ArrayOfTables(<<Version>>),
        ArrayOfTables(<<VersionFeatures, Delegated>>),
        ArrayOfTables(<<[key \in {"foo"} |-> Str("1.0")]>>)}

OtherEntries == {Str("2.0"), Inline(DelegatedVersion)}

\* no entry under a key
Absent == [kind |-> "absent"]

\* a table with the given entries for foo and bar (Absent: no such key)
DepsTable(foo, bar) ==
  [key \in {n \in Names : (n = "foo" /\ foo # Absent) \/ (n = "bar" /\ bar # Absent)}
     |-> IF key = "foo" THEN foo ELSE bar]

\* a document with the given sections (Absent: no such key)
MemberDoc(deps, dev, build) ==
  Doc([key \in {Sections[i] : i \in {j \in 1..3 :
                   <<deps, dev, build>>[j] # Absent}} |->
         CASE key = "dependencies" -> deps
           [] key = "dev-dependencies" -> dev
           [] key = "build-dependencies" -> build])

MemberDocs ==
  {Invalid} \cup
  {MemberDoc(deps, dev, build) :
     deps \in {Absent, Str("x")} \cup
              {Table(DepsTable(foo, bar)) :
                 foo \in Entries \cup {Absent}, bar \in OtherEntries \cup {Absent}},
     dev \in {Absent, Inline(EmptyMap), Table(DepsTable(Str("1.0"), Absent))},
     build \in {Absent, Table(DepsTable(Absent, Table(VersionFeatures)))}}

RunMemberDocs ==
  { MemberDoc(Table(DepsTable(Str("1.0"), Inline(VersionFeatures))), Absent, Absent),
    MemberDoc(Table(DepsTable(Inline(DelegatedVersion), Integer(1))), Absent, Absent),
    MemberDoc(Table(DepsTable(Table(VersionFeatures), Absent)), Str("x"), Absent),
    MemberDoc(Absent, Table(DepsTable(Table(NotDelegated), Absent)),
              Table(DepsTable(Absent,
                      ArrayOfTables(<<[key \in {"foo"} |-> Str("1.0")]>>)))),
    Invalid }

RootDoc(ws) ==
  Doc([key \in {"package"} \cup (IF ws = Absent THEN {} ELSE {"workspace"}) |->
         IF key = "package" THEN Table(EmptyMap) ELSE ws])

Workspace(deps) ==
  Table([key \in {"members"} \cup (IF deps = Absent THEN {} ELSE {"dependencies"}) |->
           IF key = "members" THEN Array ELSE deps])

RootDocs ==
  { RootDoc(Absent),
    RootDoc(Workspace(Absent)),
    RootDoc(Workspace(Table(DepsTable(Str("0.9"), Absent)))),
    RootDoc(Workspace(Table(DepsTable(Inline(VersionFeatures), Str("^2"))))),
    RootDoc(Str("x")),
    RootDoc(Workspace(Inline(EmptyMap))),
    Invalid }

NoReturn ==
  [root |-> "none", members |-> [i \in PackageIds |-> "none"]]

Returned(r) == IF r.err THEN "err" ELSE IF r.modified THEN "true" ELSE "false"

\* the reads and writes a call made of the file f (0: the root manifest)
Events(r, f) ==
  (IF r.read THEN <<[op |-> "read", file |-> f]>> ELSE <<>>)
  \o (IF r.written THEN <<[op |-> "write", file |-> f]>> ELSE <<>>)

NoOut == [err |-> FALSE]

(***************************************************************************)
(* run(), lines 129-199.                                                   *)
(***************************************************************************)
Init ==
  /\ metadata \in RunInventories
  /\ min_occurrences \in 1..MaxThreshold
  /\ disk \in [root : RootDocs, members : [PackageIds -> RunMemberDocs]]
  /\ common_deps = EmptyMap
  /\ pc = "start"
  /\ k = 0
  /\ run = 1
  /\ ret = NoReturn
  /\ log = <<>>
  /\ disk0 = disk
  /\ first = disk
  /\ out = NoOut

\* lines 155-164
Analyze ==
  /\ pc = "start"
  /\ LET r == find_common_dependencies(metadata, min_occurrences) IN
       /\ common_deps' = r.dep_info
       /\ pc' = IF ~r.ok THEN "error"
                ELSE IF r.dep_info = EmptyMap THEN "done" ELSE "root"
  /\ UNCHANGED <<metadata, min_occurrences, disk, k, run, ret, log, disk0,
                 first, out>>

\* a variant that drops the error of the root rewrite and goes on
AfterRootIgnoringError(r) ==
  IF Len(metadata.workspace_members) = 0 THEN "done" ELSE "members"

\* where run() goes after update_root_cargo_toml returned r (line 170)
AfterRoot(r) ==
  IF r.err THEN "error"
  ELSE IF Len(metadata.workspace_members) = 0 THEN "done" ELSE "members"

\* line 170
UpdateRoot ==
  /\ pc = "root"
  /\ \E readFails \in BOOLEAN, writeFails \in BOOLEAN :
       LET r == update_root_cargo_toml(disk.root, common_deps, readFails, writeFails)
       IN /\ disk' = [disk EXCEPT !.root = r.content]
          /\ ret' = [ret EXCEPT !.root = Returned(r)]
          /\ log' = log \o Events(r, 0)
          /\ pc' = AfterRoot(r)
  /\ k' = 1
  /\ UNCHANGED <<metadata, min_occurrences, common_deps, run, disk0, first, out>>

\* a variant that goes on to the next member after an error
AfterMemberContinuing(r, i) ==
  IF i = Len(metadata.workspace_members) THEN "done" ELSE "members"

\* where the loop of lines 177-188 goes after member i returned r
AfterMember(r, i) ==
  IF r.err THEN "error"
  ELSE IF i = Len(metadata.workspace_members) THEN "done" ELSE "members"

\* lines 177-188: one turn of the loop
UpdateMember ==
  /\ pc = "members"
  /\ LET id == metadata.workspace_members[k]
         p == FindPackage(metadata, id)
     IN
       IF ~p.found
       THEN /\ pc' = "error"
            /\ UNCHANGED <<disk, ret, log>>
       ELSE \* pkg.manifest_path is the file of the package id
            \E readFails \in BOOLEAN, writeFails \in BOOLEAN :
              LET r == update_member_cargo_toml(disk.members[id], common_deps,
                                                readFails, writeFails)
              IN /\ disk' = [disk EXCEPT !.members[id] = r.content]
                 /\ ret' = [ret EXCEPT !.members[id] = Returned(r)]
                 /\ log' = log \o Events(r, id)
                 /\ pc' = AfterMember(r, k)
  /\ k' = k + 1
  /\ UNCHANGED <<metadata, min_occurrences, common_deps, run, disk0, first, out>>

\* the program is run again on the project as the last run left it
Rerun ==
  /\ pc = "done"
  /\ run < MaxRuns
  /\ run' = run + 1
  /\ pc' = "start"
  /\ k' = 0
  /\ common_deps' = EmptyMap
  /\ ret' = NoReturn
  /\ log' = <<>>
  /\ disk0' = disk
  /\ UNCHANGED <<metadata, min_occurrences, disk, first, out>>

Next == Analyze \/ UpdateRoot \/ UpdateMember \/ Rerun

Spec == Init /\ [][Next]_vars

(***************************************************************************)
(* find_common_dependencies called alone on every inventory.               *)
(***************************************************************************)
NoDisk == [root |-> RootDoc(Absent), members |-> [i \in PackageIds |-> Invalid]]

InitFreq ==
  /\ metadata \in Inventories
  /\ min_occurrences \in 1..MaxThreshold
  /\ disk = NoDisk
  /\ common_deps = EmptyMap
  /\ pc = "call"
  /\ k = 0
  /\ run = 1
  /\ ret = NoReturn
  /\ log = <<>>
  /\ disk0 = disk
  /\ first = disk
  /\ out = NoOut

CallFindCommon ==
  /\ pc = "call"
  /\ LET r == find_common_dependencies(metadata, min_occurrences) IN
       /\ common_deps' = r.dep_info
       /\ out' = [err |-> ~r.ok]
  /\ pc' = "returned"
  /\ UNCHANGED <<metadata, min_occurrences, disk, k, run, ret, log, disk0, first>>

NextFreq == CallFindCommon

SpecFreq == InitFreq /\ [][NextFreq]_vars

(***************************************************************************)
(* update_member_cargo_toml called alone on every member manifest, which   *)
(* is the file of member 1.                                                *)
(***************************************************************************)
InitMember ==
  /\ metadata = Metadata([i \in PackageIds |-> Package(<<>>)])
  /\ min_occurrences = 1
  /\ common_deps \in CommonSets
  /\ \E doc \in MemberDocs :
       disk = [root |-> RootDoc(Absent),
               members |-> [i \in PackageIds |-> IF i = 1 THEN doc ELSE Invalid]]
  /\ pc = "call"
  /\ k = 1
  /\ run = 1
  /\ ret = NoReturn
  /\ log = <<>>
  /\ disk0 = disk
  /\ first = disk
  /\ out = NoOut

CallUpdateMember ==
  /\ pc = "call"
  /\ \E readFails \in BOOLEAN, writeFails \in BOOLEAN :
       LET r == update_member_cargo_toml(disk.members[k], common_deps,
                                         readFails, writeFails)
       IN /\ disk' = [disk EXCEPT !.members[k] = r.content]
          /\ ret' = [ret EXCEPT !.members[k] = Returned(r)]
          /\ log' = log \o Events(r, k)
          /\ out' = r
  /\ pc' = "returned"
  /\ UNCHANGED <<metadata, min_occurrences, common_deps, k, run, disk0, first>>

NextMember == CallUpdateMember

SpecMember == InitMember /\ [][NextMember]_vars

(***************************************************************************)
(* Properties.                                                             *)
(***************************************************************************)
\* the members that declare name with a source that is no local path
DeclaringMembers(md, name) ==
  {i \in DOMAIN md.workspace_members :
     \E j \in DOMAIN md.packages[i].dependencies :
       /\ md.packages[i].dependencies[j].name = name
       /\ ~md.packages[i].dependencies[j].path}

\* the declarations of all members in inventory order
RECURSIVE Declarations(_, _)
Declarations(md, m) ==
  IF m > Len(md.workspace_members) THEN <<>>
  ELSE md.packages[md.workspace_members[m]].dependencies \o Declarations(md, m + 1)

\* the first declaration of name from a source that is no local path
FirstOccurrence(md, name) ==
  LET all == Declarations(md, 1)
      at == {i \in DOMAIN all : all[i].name = name /\ ~all[i].path}
  IN all[CHOOSE i \in at : \A j \in at : i <= j]

\* C1: a name declared from a registry by exactly min_occurrences - 1 members
\* is no key of the result of find_common_dependencies, and a name declared
\* by exactly min_occurrences members is a key of it, also when a member
\* declares the name in several of its tables.
C1_ThresholdBoundary ==
  pc = "returned" =>
    \A name \in Names :
      LET c == Cardinality(DeclaringMembers(metadata, name)) IN
        /\ c = min_occurrences - 1 => name \notin DOMAIN common_deps
        /\ c = min_occurrences => name \in DOMAIN common_deps

\* no member declares name from a registry more than once
DeclaredOncePerMember(md, name) ==
  \A i \in DOMAIN md.workspace_members :
    Cardinality({j \in DOMAIN md.packages[i].dependencies :
                   /\ md.packages[i].dependencies[j].name = name
                   /\ ~md.packages[i].dependencies[j].path}) <= 1

\* C2: the requirement find_common_dependencies stores for a qualifying name
\* is the requirement of the name's first occurrence in inventory order,
\* that of the first member that declares it, here for the names each member
\* declares at most once.
C2_FirstSeen ==
  pc = "returned" =>
    \A name \in DOMAIN common_deps :
      DeclaredOncePerMember(metadata, name) =>
        common_deps[name].req = FirstOccurrence(metadata, name).req

\* the table workspace.dependencies of a root manifest (empty if it has none)
RootDependencies(doc) ==
  IF /\ doc.kind = "doc"
     /\ "workspace" \in DOMAIN doc.tbl
     /\ IsTable(doc.tbl["workspace"])
     /\ "dependencies" \in DOMAIN doc.tbl["workspace"].tbl
     /\ IsTable(doc.tbl["workspace"].tbl["dependencies"])
  THEN doc.tbl["workspace"].tbl["dependencies"].tbl
  ELSE EmptyMap

\* C3: update_root_cargo_toml leaves every key workspace.dependencies had
\* with its value, inserts name = requirement as a string for the qualifying
\* names it lacked and returns true exactly when it inserted one; the keys
\* the first run found keep their values through every later run.
C3_RootNonOverwrite ==
  /\ \A name \in DOMAIN RootDependencies(first.root) :
       /\ name \in DOMAIN RootDependencies(disk.root)
       /\ RootDependencies(disk.root)[name] = RootDependencies(first.root)[name]
  /\ ret.root \in {"true", "false"} =>
       LET pre == RootDependencies(disk0.root)
           post == RootDependencies(disk.root)
       IN /\ DOMAIN post = DOMAIN pre \cup DOMAIN common_deps
          /\ \A name \in DOMAIN post :
               post[name] = IF name \in DOMAIN pre THEN pre[name]
                            ELSE Str(ReqToString(common_deps[name].req))
          /\ (ret.root = "true") <=> (DOMAIN common_deps \ DOMAIN pre # {})

\* a second run that ended well, after a first run that inserted bar next to
\* a pin of foo that differs from the requirement of the inventory
C3_Witness ==
  /\ run = 2 /\ pc = "done" /\ ret.root = "false"
  /\ DOMAIN RootDependencies(first.root) = {"foo"}
  /\ DOMAIN common_deps = {"foo", "bar"}
  /\ RootDependencies(disk.root)["foo"] = Str("0.9")
  /\ RootDependencies(disk.root)["bar"] = Str("^2")

\* the dependency tables of a member manifest
TableSections(doc) ==
  IF doc.kind # "doc" THEN {}
  ELSE {key \in DOMAIN doc.tbl :
          (\E i \in DOMAIN Sections : Sections[i] = key) /\ IsTable(doc.tbl[key])}

\* C4: a run directly after a run that ended well reports no file modified
\* and leaves every manifest as it found it, and update_dependencies_table
\* applied to its own result returns false.
C4_Idempotent ==
  /\ run > 1 =>
       /\ ret.root # "true"
       /\ \A i \in PackageIds : ret.members[i] # "true"
       /\ disk = disk0
  /\ \A i \in PackageIds : \A key \in TableSections(disk.members[i]) :
       LET once == update_dependencies_table(disk.members[i].tbl[key].tbl, common_deps)
       IN ~update_dependencies_table(once.tbl, common_deps).modified

\* a second run that ended well after a first run that changed the root and
\* every member
C4_Witness ==
  /\ run = 2 /\ pc = "done"
  /\ first.root # disk.root
  /\ \A i \in PackageIds : first.members[i] # disk.members[i]
  /\ \A i \in PackageIds : ret.members[i] = "false"

\* C6: no member manifest is read or written before the root manifest was
\* written, and when a member manifest on disk was rewritten by this run
\* every qualifying name is a key of workspace.dependencies on disk.
C6_RootBeforeMembers ==
  /\ \A i \in DOMAIN log :
       log[i].file # 0 =>
         \E j \in 1..(i - 1) : log[j] = [op |-> "write", file |-> 0]
  /\ \A i \in PackageIds :
       disk.members[i] # disk0.members[i] =>
         DOMAIN common_deps \subseteq DOMAIN RootDependencies(disk.root)

\* a member was rewritten after the root gained the names it lacked
C6_Witness ==
  /\ \E i \in PackageIds : disk.members[i] # disk0.members[i]
  /\ RootDependencies(disk0.root) = EmptyMap
  /\ common_deps # EmptyMap

\* the reads and writes of the members from i on
Touched(i) == {j \in DOMAIN log : log[j].file >= i /\ log[j].file # 0}

\* C7: after an error nothing is written: an error of the root rewrite ends
\* the run with no member touched, an error of member i ends it with the
\* files of i and of the later members as they were and with the root and
\* the earlier members as their rewrites left them.
C7_FailFast ==
  /\ (ret.root = "err" \/ \E i \in PackageIds : ret.members[i] = "err")
       => pc = "error"
  /\ pc = "error" => ~ENABLED Next
  /\ ret.root = "err" =>
       /\ Touched(1) = {}
       /\ \A i \in PackageIds :
            ret.members[i] = "none" /\ disk.members[i] = disk0.members[i]
  /\ \A i \in PackageIds :
       ret.members[i] = "err" =>
         /\ disk.members[i] = disk0.members[i]
         /\ Touched(i + 1) = {}
         /\ \A j \in PackageIds :
              j > i => ret.members[j] = "none" /\ disk.members[j] = disk0.members[j]
         /\ disk.root =
              update_root_cargo_toml(disk0.root, common_deps, FALSE, FALSE).content
         /\ \A j \in PackageIds :
              j < i => disk.members[j] =
                update_member_cargo_toml(disk0.members[j], common_deps,
                                         FALSE, FALSE).content
  /\ (pc = "error" /\ ret = NoReturn) => (disk = disk0 /\ log = <<>>)

\* the second member failed after the root and the first member were changed
C7_Witness ==
  /\ pc = "error"
  /\ ret.members[2] = "err"
  /\ disk.root # disk0.root
  /\ disk.members[1] # disk0.members[1]
  /\ disk.members[2] = disk0.members[2]

\* C8: a run writes a manifest only if its rewrite reports it modified, the
\* root manifest included, and a run with an empty qualifying set writes no
\* file.
C8_WritesOnlyModified ==
  /\ \A i \in DOMAIN log :
       log[i].op = "write" =>
         (IF log[i].file = 0 THEN ret.root ELSE ret.members[log[i].file]) = "true"
  /\ (pc = "done" /\ common_deps = EmptyMap) =>
       \A i \in DOMAIN log : log[i].op # "write"

\* an entry declared with a local path
HasPath(item) == item.kind \in {"inline", "table"} /\ "path" \in DOMAIN item.tbl

\* C5: the member rewrite leaves an entry as it was when its name is not in
\* the qualifying set and when the entry has a path attribute.
C5_Untouched ==
  (pc = "returned" /\ out.read) =>
    \A key \in TableSections(disk0.members[1]) :
      \A name \in DOMAIN disk0.members[1].tbl[key].tbl :
        LET item == disk0.members[1].tbl[key].tbl[name] IN
          (name \notin DOMAIN common_deps \/ HasPath(item)) =>
            /\ out.doc.tbl[key].tbl[name] = item
            /\ disk.members[1].tbl[key].tbl[name] = item

\* the variants of an entry the postcondition is stated for
Recognised(item) ==
  \/ item.kind \in {"string", "aot"}
  \/ /\ item.kind \in {"inline", "table"}
     /\ "workspace" \in DOMAIN item.tbl => IsBool(item.tbl["workspace"])

\* an attribute table with the delegation marker and without a version
DelegatesTable(t) ==
  /\ "workspace" \in DOMAIN t
  /\ t["workspace"] = Bool(TRUE)
  /\ "version" \notin DOMAIN t

Delegates(item) ==
  CASE item.kind \in {"inline", "table"} -> DelegatesTable(item.tbl)
    [] item.kind = "aot" ->
         \A i \in DOMAIN item.elems : DelegatesTable(item.elems[i])
    [] OTHER -> FALSE

\* the keys of an entry other than version and workspace are as they were
KeepsOtherKeys(before, after) ==
  before.kind \in {"inline", "table"} =>
    /\ after.kind = before.kind
    /\ DOMAIN after.tbl \ {"version", "workspace"}
         = DOMAIN before.tbl \ {"version", "workspace"}
    /\ \A key \in DOMAIN before.tbl \ {"version", "workspace"} :
         after.tbl[key] = before.tbl[key]

\* C9: after update_member_cargo_toml succeeded, every entry of the three
\* dependency tables of the manifest whose name is in the qualifying set has
\* workspace = true and no version (each element of an array of tables
\* has), and its other keys are as they were.
C9_Postcondition ==
  (pc = "returned" /\ ~out.err) =>
    \A key \in TableSections(disk0.members[1]) :
      \A name \in DOMAIN disk0.members[1].tbl[key].tbl \cap DOMAIN common_deps :
        LET before == disk0.members[1].tbl[key].tbl[name]
            after == disk.members[1].tbl[key].tbl[name]
        IN Recognised(before) =>
             Delegates(after) /\ KeepsOtherKeys(before, after)

\* C10: the member rewrite returns an error when the entry of a qualifying
\* name is neither a string, an inline table, a table nor an array of tables.
C10_MalformedIsError ==
  (pc = "returned" /\ out.read) =>
    ((\E key \in TableSections(disk0.members[1]) :
        \E name \in DOMAIN disk0.members[1].tbl[key].tbl \cap DOMAIN common_deps :
          disk0.members[1].tbl[key].tbl[name].kind
            \notin {"string", "inline", "table", "aot"})
       => out.err)

====
